---- MODULE Spec2Model ----
(***************************************************************************)
(* Screening engine of the ASX stock screener: FilterPanel.tsx (criteria,  *)
(* cascade, applyFilters), DataTable.tsx (state, useMemo derivations,      *)
(* useReactTable with the default sorted row model).                       *)
(*                                                                         *)
(* Representation.                                                         *)
(*  - A nullable value (number | null, string | null) is <<>> for null and *)
(*    <<v>> for the value v.                                               *)
(*  - market_cap_basic is counted in units of 10^8 dollars, so that        *)
(*    1_000_000_000 is Billion = 10 and every product stays within 32-bit  *)
(*    integers; bounds typed in the "Market Cap (B)" inputs are whole      *)
(*    billions.                                                            *)
(*  - change is counted in tenths of a percent (the inputs' step is 0.1);  *)
(*    RSI is a whole number.                                               *)
(*  - A technical rating is counted in units of 10^-7.                     *)
(*  - The table library configured by useReactTable is modelled by the     *)
(*    behaviour of the options DataTable.tsx leaves at their defaults      *)
(*    (sorting functions, sort toggling, pagination, column visibility).   *)
(***************************************************************************)
EXTENDS Integers, Sequences, FiniteSets, TLC

VARIABLES data, filters, isExpanded, sorting, pagination, pageSize,
          columnVisibility, filteredData, industryOptions, sortedRows,
          pageRows, cells, renderError, last, rating, ratingLabel

vars == <<data, filters, isExpanded, sorting, pagination, pageSize,
          columnVisibility, filteredData, industryOptions, sortedRows,
          pageRows, cells, renderError, last, rating, ratingLabel>>

----------------------------------------------------------------------------
(* Bounds and the record pool                                              *)

MaxRecords == 3

Null == <<>>

Some(v) == <<v>>

Billion == 10

Stock(sym, sec, ind, mc, rsi, chg) ==
  [symbol |-> Some(sym), sector |-> sec, industry |-> ind,
   market_cap_basic |-> mc, RSI |-> rsi, change |-> chg]

\* The three records of the end-to-end scenario (industries added), a record
\* without sector and industry, and a record with an empty industry string.
StockA == Stock("AAA", Some("Tech"), Some("Software"), Null, Some(75), Some(30))

StockB == Stock("BBB", Some("Tech"), Some("Software"), Some(50), Some(20), Some(-10))

StockC == Stock("CCC", Some("Energy"), Some("Oil"), Some(20), Null, Some(5))

StockD == Stock("DDD", Null, Null, Some(100), Some(70), Null)

StockE == Stock("EEE", Some("Energy"), Some(""), Null, Some(30), Some(-10))

Pool == {StockA, StockB, StockC, StockD, StockE}

RECURSIVE SeqsUpTo(_)
\* An array built element by element, as a sequence value.
Array(f) == <<>> \o f

SeqsUpTo(n) ==
  IF n = 0 THEN {<<>>}
  ELSE LET shorter == SeqsUpTo(n - 1)
       IN  shorter \cup
           {Append(s, r) : s \in {t \in shorter : Len(t) = n - 1}, r \in Pool}

\* Snapshots: sequences of records with unique identifiers.
Snapshots ==
  {s \in SeqsUpTo(MaxRecords) :
     \A i, j \in 1..Len(s) : i # j => s[i].symbol # s[j].symbol}

SnapshotABC == <<StockA, StockB, StockC>>

SnapshotAll == <<StockA, StockB, StockC, StockD, StockE>>

\* A snapshot that spans several pages: BigRecords records, the first 25 in
\* sector Tech, RSI 1..BigRecords (none overbought, 30 oversold), market cap
\* k * 10^9 for record k.
BigRecords == 52

BigStock(k) ==
  Stock(IF k = 1 THEN "ASX:CBA" ELSE ToString(k),
        Some(IF k <= 25 THEN "Tech" ELSE "Energy"),
        Some(IF k <= 25 THEN "Software" ELSE "Oil"),
        Some(k * 10), Some(k), Some(k))

SnapshotBig == Array([k \in 1..BigRecords |-> BigStock(k)])

\* Its last records: one of sector Tech, then a second page of Energy.
SnapshotTail == SubSeq(SnapshotBig, 25, BigRecords)

\* The same snapshot with the identifier of record 30 missing.
SnapshotMalformed == [SnapshotBig EXCEPT ![30].symbol = Null]

----------------------------------------------------------------------------
(* FilterPanel.tsx                                                         *)

defaultFilters ==
  [sector |-> "Any", industry |-> "Any",
   marketCapMin |-> Null, marketCapMax |-> Null,
   rsiMin |-> Null, rsiMax |-> Null,
   changeMin |-> Null, changeMax |-> Null]

\* Array.prototype.sort() on strings: UTF-16 code unit order, here over the
\* strings of the model.
StringOrder == <<"", "Any", "Energy", "Oil", "Software", "Tech", "energy">>

sortStrings(S) == SelectSeq(StringOrder, LAMBDA s : s \in S)

\* if (stock.industry) industrySet.add(stock.industry): null and "" are falsy
truthy(o) == o # Null /\ o[1] # ""

sectors(d) ==
  <<"Any">> \o sortStrings({d[i].sector[1] : i \in {j \in 1..Len(d) : truthy(d[j].sector)}})

industries(d) ==
  <<"Any">> \o sortStrings({d[i].industry[1] : i \in {j \in 1..Len(d) : truthy(d[j].industry)}})

filteredIndustries_IgnoreSector(d, sector) == industries(d)

filteredIndustries_OtherSectors(d, sector) ==
  IF sector = "Any" THEN industries(d)
  ELSE <<"Any">> \o
       sortStrings({d[i].industry[1] :
                      i \in {j \in 1..Len(d) :
                               d[j].sector # Some(sector) /\ truthy(d[j].industry)}})

filteredIndustries(d, sector) ==
  IF sector = "Any" THEN industries(d)
  ELSE <<"Any">> \o
       sortStrings({d[i].industry[1] :
                      i \in {j \in 1..Len(d) :
                               d[j].sector = Some(sector) /\ truthy(d[j].industry)}})

FilterKeys ==
  {"sector", "industry", "marketCapMin", "marketCapMax",
   "rsiMin", "rsiMax", "changeMin", "changeMax"}

updateFilter_NoCascade(f, key, value) == [f EXCEPT ![key] = value]

updateFilter_InvertedCascade(f, key, value) ==
  LET newFilters == [f EXCEPT ![key] = value]
  IN  IF key = "sector" /\ value = f.sector
      THEN [newFilters EXCEPT !.industry = "Any"]
      ELSE newFilters

\* The criteria handed to onFilterChange by updateFilter(key, value).
updateFilter(f, key, value) ==
  LET newFilters == [f EXCEPT ![key] = value]
  IN  IF key = "sector" /\ value # f.sector
      THEN [newFilters EXCEPT !.industry = "Any"]
      ELSE newFilters

hasActiveFilters(f) ==
  \/ f.sector # "Any"
  \/ f.industry # "Any"
  \/ f.marketCapMin # Null
  \/ f.marketCapMax # Null
  \/ f.rsiMin # Null
  \/ f.rsiMax # Null
  \/ f.changeMin # Null
  \/ f.changeMax # Null

\* JavaScript's relational comparison converts null to 0.
toNumber(o) == IF o = Null THEN 0 ELSE o[1]

\* Mutant: the record-side null checks are missing, so a null metric is
\* compared as 0.
matches_NullAsZero(stock, f) ==
  /\ ~(f.sector # "Any" /\ stock.sector # Some(f.sector))
  /\ ~(f.industry # "Any" /\ stock.industry # Some(f.industry))
  /\ ~(f.marketCapMin # Null /\ toNumber(stock.market_cap_basic) < f.marketCapMin[1] * Billion)
  /\ ~(f.marketCapMax # Null /\ toNumber(stock.market_cap_basic) > f.marketCapMax[1] * Billion)
  /\ ~(f.rsiMin # Null /\ toNumber(stock.RSI) < f.rsiMin[1])
  /\ ~(f.rsiMax # Null /\ toNumber(stock.RSI) > f.rsiMax[1])
  /\ ~(f.changeMin # Null /\ toNumber(stock.change) < f.changeMin[1])
  /\ ~(f.changeMax # Null /\ toNumber(stock.change) > f.changeMax[1])

\* Mutant: the criteria-side null checks are missing, so an unset bound is
\* compared as 0.
matches_NullBoundAsZero(stock, f) ==
  /\ ~(f.sector # "Any" /\ stock.sector # Some(f.sector))
  /\ ~(f.industry # "Any" /\ stock.industry # Some(f.industry))
  /\ ~(stock.market_cap_basic # Null /\ stock.market_cap_basic[1] < toNumber(f.marketCapMin) * Billion)
  /\ ~(f.marketCapMax # Null /\ stock.market_cap_basic # Null
         /\ stock.market_cap_basic[1] > f.marketCapMax[1] * Billion)
  /\ ~(stock.RSI # Null /\ stock.RSI[1] < toNumber(f.rsiMin))
  /\ ~(f.rsiMax # Null /\ stock.RSI # Null /\ stock.RSI[1] > f.rsiMax[1])
  /\ ~(stock.change # Null /\ stock.change[1] < toNumber(f.changeMin))
  /\ ~(f.changeMax # Null /\ stock.change # Null /\ stock.change[1] > f.changeMax[1])

\* Mutant: the industry test is joined to the sector test by "or".
matches_SectorOrIndustry(stock, f) ==
  /\ \/ ~(f.sector # "Any" /\ stock.sector # Some(f.sector))
     \/ ~(f.industry # "Any" /\ stock.industry # Some(f.industry))
  /\ ~(f.marketCapMin # Null /\ stock.market_cap_basic # Null
         /\ stock.market_cap_basic[1] < f.marketCapMin[1] * Billion)
  /\ ~(f.marketCapMax # Null /\ stock.market_cap_basic # Null
         /\ stock.market_cap_basic[1] > f.marketCapMax[1] * Billion)
  /\ ~(f.rsiMin # Null /\ stock.RSI # Null /\ stock.RSI[1] < f.rsiMin[1])
  /\ ~(f.rsiMax # Null /\ stock.RSI # Null /\ stock.RSI[1] > f.rsiMax[1])
  /\ ~(f.changeMin # Null /\ stock.change # Null /\ stock.change[1] < f.changeMin[1])
  /\ ~(f.changeMax # Null /\ stock.change # Null /\ stock.change[1] > f.changeMax[1])

\* Mutant: the RSI lower bound is tested against the upper bound's field.
matches_RsiMinIgnored(stock, f) ==
  /\ ~(f.sector # "Any" /\ stock.sector # Some(f.sector))
  /\ ~(f.industry # "Any" /\ stock.industry # Some(f.industry))
  /\ ~(f.marketCapMin # Null /\ stock.market_cap_basic # Null
         /\ stock.market_cap_basic[1] < f.marketCapMin[1] * Billion)
  /\ ~(f.marketCapMax # Null /\ stock.market_cap_basic # Null
         /\ stock.market_cap_basic[1] > f.marketCapMax[1] * Billion)
  /\ ~(f.rsiMax # Null /\ stock.RSI # Null /\ stock.RSI[1] < f.rsiMax[1])
  /\ ~(f.rsiMax # Null /\ stock.RSI # Null /\ stock.RSI[1] > f.rsiMax[1])
  /\ ~(f.changeMin # Null /\ stock.change # Null /\ stock.change[1] < f.changeMin[1])
  /\ ~(f.changeMax # Null /\ stock.change # Null /\ stock.change[1] > f.changeMax[1])

\* Mutant: the range comparisons also reject a value equal to the bound.
matches_ExclusiveBounds(stock, f) ==
  /\ ~(f.sector # "Any" /\ stock.sector # Some(f.sector))
  /\ ~(f.industry # "Any" /\ stock.industry # Some(f.industry))
  /\ ~(f.marketCapMin # Null /\ stock.market_cap_basic # Null
         /\ stock.market_cap_basic[1] <= f.marketCapMin[1] * Billion)
  /\ ~(f.marketCapMax # Null /\ stock.market_cap_basic # Null
         /\ stock.market_cap_basic[1] >= f.marketCapMax[1] * Billion)
  /\ ~(f.rsiMin # Null /\ stock.RSI # Null /\ stock.RSI[1] <= f.rsiMin[1])
  /\ ~(f.rsiMax # Null /\ stock.RSI # Null /\ stock.RSI[1] >= f.rsiMax[1])
  /\ ~(f.changeMin # Null /\ stock.change # Null /\ stock.change[1] <= f.changeMin[1])
  /\ ~(f.changeMax # Null /\ stock.change # Null /\ stock.change[1] >= f.changeMax[1])

\* The callback of data.filter in applyFilters: each "return false" in turn,
\* then "return true".
matches(stock, f) ==
  IF f.sector # "Any" /\ stock.sector # Some(f.sector) THEN FALSE
  ELSE IF f.industry # "Any" /\ stock.industry # Some(f.industry) THEN FALSE
  ELSE IF /\ f.marketCapMin # Null /\ stock.market_cap_basic # Null
          /\ stock.market_cap_basic[1] < f.marketCapMin[1] * Billion THEN FALSE
  ELSE IF /\ f.marketCapMax # Null /\ stock.market_cap_basic # Null
          /\ stock.market_cap_basic[1] > f.marketCapMax[1] * Billion THEN FALSE
  ELSE IF f.rsiMin # Null /\ stock.RSI # Null /\ stock.RSI[1] < f.rsiMin[1] THEN FALSE
  ELSE IF f.rsiMax # Null /\ stock.RSI # Null /\ stock.RSI[1] > f.rsiMax[1] THEN FALSE
  ELSE IF f.changeMin # Null /\ stock.change # Null /\ stock.change[1] < f.changeMin[1] THEN FALSE
  ELSE IF f.changeMax # Null /\ stock.change # Null /\ stock.change[1] > f.changeMax[1] THEN FALSE
  ELSE TRUE

\* Mutant: a range whose minimum exceeds its maximum is applied with the two
\* bounds exchanged.
applyFilters_SwapInverted(d, f) ==
  LET inverted(min, max) == min # Null /\ max # Null /\ min[1] > max[1]
      swap(g, min, max) ==
        IF inverted(g[min], g[max])
        THEN [g EXCEPT ![min] = g[max], ![max] = g[min]]
        ELSE g
      normal == swap(swap(swap(f, "marketCapMin", "marketCapMax"),
                          "rsiMin", "rsiMax"), "changeMin", "changeMax")
  IN  SelectSeq(d, LAMBDA stock : matches(stock, normal))

\* Mutant: the kept records come out in reverse order.
applyFilters_Reversed(d, f) ==
  LET kept == SelectSeq(d, LAMBDA stock : matches(stock, f))
  IN  [k \in 1..Len(kept) |-> kept[Len(kept) + 1 - k]]

applyFilters(d, f) == SelectSeq(d, LAMBDA stock : matches(stock, f))

----------------------------------------------------------------------------
(* DataTable.tsx: useReactTable with getSortedRowModel() and no sortingFn, *)
(* sortUndefined or invertSorting on any column, so every numeric column   *)
(* is ordered by the table library's default "basic" sorting function and  *)
(* a column of plain words by its "text" sorting function.                 *)

NumericColumns == {"market_cap_basic", "RSI", "change"}

\* Columns whose non-null values are strings.
StringColumns == {"ticker", "sector", "industry"}

\* The columns whose header the model clicks.
SortableColumns == NumericColumns \cup {"sector"}

\* symbol.split(":") for the symbols of the model that hold a colon.
SymbolParts == [s \in {"ASX:CBA"} |-> <<"ASX", "CBA">>]

split(symbol) == IF symbol \in DOMAIN SymbolParts THEN SymbolParts[symbol] ELSE <<symbol>>

\* parts.length > 1 ? parts[1] : symbol
extractTicker(symbol) ==
  LET parts == split(symbol) IN IF Len(parts) > 1 THEN parts[2] ELSE symbol

\* accessorKey columns read the field of the same name; the ticker column
\* reads extractTicker(row.symbol).
getValue(stock, id) ==
  CASE id = "market_cap_basic" -> stock.market_cap_basic
    [] id = "RSI" -> stock.RSI
    [] id = "change" -> stock.change
    [] id = "sector" -> stock.sector
    [] id = "industry" -> stock.industry
    [] id = "ticker" -> Some(extractTicker(stock.symbol[1]))

\* a === b ? 0 : a > b ? 1 : -1
compareBasic(a, b) ==
  IF a = b THEN 0
  ELSE IF toNumber(a) > toNumber(b) THEN 1 ELSE -1

\* String.prototype.toLowerCase over the strings of the model.
toLowerCase ==
  [s \in {"", "Any", "Energy", "Oil", "Software", "Tech", "energy"} |->
     CASE s = "" -> "" [] s = "Any" -> "any" [] s = "Energy" -> "energy"
       [] s = "Oil" -> "oil" [] s = "Software" -> "software" [] s = "Tech" -> "tech"
       [] s = "energy" -> "energy"]

\* The order of > on the lower-cased strings of the model.
LowerOrder == <<"", "any", "energy", "oil", "software", "tech">>

rank(s) == CHOOSE k \in 1..Len(LowerOrder) : LowerOrder[k] = s

\* The "text" sorting function:
\* compareBasic(toString(a).toLowerCase(), toString(b).toLowerCase()),
\* where toString(null) is "".
compareText(a, b) ==
  LET la == toLowerCase[IF a = Null THEN "" ELSE a[1]]
      lb == toLowerCase[IF b = Null THEN "" ELSE b[1]]
  IN  IF la = lb THEN 0 ELSE IF rank(la) > rank(lb) THEN 1 ELSE -1

\* column.getSortingFn(): "basic" for numbers, "text" for words.
sortingFn(id, a, b) ==
  IF id \in NumericColumns THEN compareBasic(a, b) ELSE compareText(a, b)

\* sortingState.filter(sort => table.getColumn(sort.id)?.getCanSort())
availableSorting(srt) == SelectSeq(srt, LAMBDA e : e.id \in SortableColumns)

\* The comparator handed to Array.prototype.sort for rows i and j of the
\* core row model: the first sort entry with a non-zero result decides,
\* negated when desc; ties fall back to rowA.index - rowB.index.
RECURSIVE sortCompare(_, _, _, _)
sortCompare(rows, srt, i, j) ==
  IF srt = <<>> THEN i - j
  ELSE LET sortInt == sortingFn(Head(srt).id,
                                 getValue(rows[i], Head(srt).id),
                                 getValue(rows[j], Head(srt).id))
       IN  IF sortInt # 0
           THEN (IF Head(srt).desc THEN -sortInt ELSE sortInt)
           ELSE sortCompare(rows, Tail(srt), i, j)

\* sortedData.sort(comparator) over the row indices.  The comparator never
\* returns 0 for two different rows, so the sorted order is unique: row i
\* comes after exactly the rows that compare below it.
sortData(rows, srt) ==
  LET position == Array([i \in 1..Len(rows) |->
                           1 + Cardinality({j \in 1..Len(rows) :
                                              sortCompare(rows, srt, j, i) < 0})])
  IN  Array([k \in 1..Len(rows) |-> CHOOSE i \in 1..Len(rows) : position[i] = k])

\* if (!rowModel.rows.length || !sorting?.length) return rowModel
getSortedRowModel(rows, srt) ==
  IF Len(rows) = 0 \/ Len(srt) = 0 THEN rows
  ELSE LET order == sortData(rows, availableSorting(srt))
       IN  Array([k \in 1..Len(rows) |-> rows[order[k]]])

----------------------------------------------------------------------------
(* Header clicks: header.column.getToggleSortingHandler() with the         *)
(* library's defaults (multi-sort on shift-click, sorting removal on).     *)

\* column.getIsSorted(): false, "asc" or "desc"
getIsSorted(srt, id) ==
  LET own == SelectSeq(srt, LAMBDA e : e.id = id)
  IN  IF own = <<>> THEN "false" ELSE IF own[1].desc THEN "desc" ELSE "asc"

\* typeof firstRow.getValue(id) === "string" ? "asc" : "desc"
getAutoSortDir(rowsIn, id) ==
  IF rowsIn # <<>> /\ id \in StringColumns /\ getValue(rowsIn[1], id) # Null
  THEN "asc" ELSE "desc"

\* No column sets sortDescFirst, so the first direction is the automatic one.
getFirstSortDir(rowsIn, id) == getAutoSortDir(rowsIn, id)

\* column.getNextSortingOrder(): "asc", "desc" or "false" (remove)
getNextSortingOrder(srt, rowsIn, id) ==
  LET firstSortDirection == getFirstSortDir(rowsIn, id)
      isSorted == getIsSorted(srt, id)
  IN  IF isSorted = "false" THEN firstSortDirection
      ELSE IF isSorted # firstSortDirection THEN "false"
      ELSE IF isSorted = "desc" THEN "asc" ELSE "desc"

\* e.shiftKey, since getCanMultiSort() is true for every accessor column
isMultiSortEvent(shiftKey) == shiftKey

\* column.toggleSorting(undefined, multi): the updater handed to setSorting
toggleSorting(old, rowsIn, id, multi) ==
  LET nextSortingOrder == getNextSortingOrder(old, rowsIn, id)
      nextDesc == (nextSortingOrder = "desc")
      existing == \E k \in 1..Len(old) : old[k].id = id
      isLast == old # <<>> /\ old[Len(old)].id = id
      action0 == IF old # <<>> /\ multi
                 THEN (IF existing THEN "toggle" ELSE "add")
                 ELSE IF old # <<>> /\ ~isLast THEN "replace"
                 ELSE IF existing THEN "toggle" ELSE "replace"
      sortAction == IF action0 = "toggle" /\ nextSortingOrder = "false"
                    THEN "remove" ELSE action0
  IN  CASE sortAction = "add" -> Append(old, [id |-> id, desc |-> nextDesc])
        [] sortAction = "toggle" ->
             [k \in 1..Len(old) |->
                IF old[k].id = id THEN [id |-> id, desc |-> nextDesc] ELSE old[k]]
        [] sortAction = "remove" -> SelectSeq(old, LAMBDA e : e.id # id)
        [] sortAction = "replace" -> <<[id |-> id, desc |-> nextDesc]>>

----------------------------------------------------------------------------
(* Pagination: getPaginationRowModel() with the library's defaults         *)
(* (pageCount option unset, automatic page index reset on).                *)

InitialPageSize == 25

PageSizes == {25, 50, 100}

\* options.pageCount ?? Math.ceil(rowCount / pageSize)
getPageCount(n, pg) == (n + pg.pageSize - 1) \div pg.pageSize

\* pageIndex > 0
getCanPreviousPage(n, pg) == pg.pageIndex > 0

\* pageCount === 0 ? false : pageIndex < pageCount - 1
getCanNextPage(n, pg) ==
  IF getPageCount(n, pg) = 0 THEN FALSE
  ELSE pg.pageIndex < getPageCount(n, pg) - 1

\* Math.max(0, Math.min(index, Number.MAX_SAFE_INTEGER)) when the pageCount
\* option is unset
setPageIndex(pg, index) ==
  [pg EXCEPT !.pageIndex = IF index < 0 THEN 0 ELSE index]

\* Mutant: the table's page size is left as it is.
setPageSize_Ignored(pg, newSize) == pg

\* pageSize = max(1, newSize); pageIndex = floor(topRowIndex / pageSize)
setPageSize(pg, newSize) ==
  LET size == IF newSize < 1 THEN 1 ELSE newSize
      topRowIndex == pg.pageSize * pg.pageIndex
  IN  [pageIndex |-> topRowIndex \div size, pageSize |-> size]

\* Mutant: the automatic page index reset is switched off.
resetPageIndex_Off(pg) == pg

\* table.resetPageIndex(), queued by the row models when the data or the
\* sorting they were computed from is replaced
resetPageIndex(pg) == [pg EXCEPT !.pageIndex = 0]

\* Mutant: the slice ends one row early.
getPaginationRowModel_DropLast(rowsIn, pg) ==
  LET pageStart == pg.pageSize * pg.pageIndex
      pageEnd == pageStart + pg.pageSize - 1
      upTo == IF pageEnd < Len(rowsIn) THEN pageEnd ELSE Len(rowsIn)
  IN  IF pageStart >= upTo THEN <<>> ELSE SubSeq(rowsIn, pageStart + 1, upTo)

\* rows.slice(pageStart, pageEnd)
getPaginationRowModel(rowsIn, pg) ==
  LET pageStart == pg.pageSize * pg.pageIndex
      pageEnd == pageStart + pg.pageSize
      upTo == IF pageEnd < Len(rowsIn) THEN pageEnd ELSE Len(rowsIn)
  IN  IF pageStart >= upTo THEN <<>> ELSE SubSeq(rowsIn, pageStart + 1, upTo)

\* "Showing {pageIndex * pageSize + 1} to ...", with DataTable's pageSize.
showingFrom(pg, size) == pg.pageIndex * size + 1

\* "... to {Math.min((pageIndex + 1) * pageSize, filteredData.length)}"
showingTo(pg, size, n) ==
  IF (pg.pageIndex + 1) * size < n THEN (pg.pageIndex + 1) * size ELSE n

----------------------------------------------------------------------------
(* Column visibility: lib/columns.tsx, DataTable.tsx and ColumnToggle.tsx  *)

\* The column definitions of the model, in the order of the columns array:
\* the ticker column has an explicit id and an accessorFn, the others have
\* an accessorKey only.
ColumnDefs ==
  <<[id |-> Some("ticker"), accessorKey |-> Null]>>
    \o [k \in 1..5 |->
          [id |-> Null,
           accessorKey |-> Some(<<"change", "market_cap_basic", "RSI", "sector",
                                  "industry">>[k])]]

\* The id the table gives a column: columnDef.id ?? columnDef.accessorKey
\* (no accessorKey of the columns array holds a dot).
columnId(col) == IF col.id # Null THEN col.id[1] ELSE col.accessorKey[1]

\* The ids of the columns, in the order of the columns array.
Columns == Array([k \in 1..Len(ColumnDefs) |-> columnId(ColumnDefs[k])])

ColumnIds == {Columns[k] : k \in 1..Len(Columns)}

\* defaultVisibleColumns, restricted to the columns of the model.
defaultVisibleColumns == {"ticker", "change", "market_cap_basic", "RSI", "sector"}

\* const colId = col.id || col.accessorKey: "" stands for no colId.
colId(col) ==
  IF truthy(col.id) THEN col.id[1]
  ELSE IF col.accessorKey # Null THEN col.accessorKey[1] ELSE ""

\* Mutant: every column starts visible.
initialColumnVisibility_AllVisible == [c \in ColumnIds |-> TRUE]

\* columns.forEach(col => { if (colId) visibility[colId] =
\* defaultVisibleColumns.includes(colId) })
initialColumnVisibility ==
  [c \in {colId(ColumnDefs[k]) : k \in 1..Len(ColumnDefs)} \ {""} |->
     c \in defaultVisibleColumns]

\* Mutant: the ticker column does not set enableHiding: false.
getCanHide_Always(id) == TRUE

\* enableHiding ?? true: only the ticker column sets enableHiding: false
getCanHide(id) == id # "ticker"

\* columnVisibility?.[id] ?? true
getIsVisible(vis, id) == IF id \in DOMAIN vis THEN vis[id] ELSE TRUE

\* if (column.getCanHide()) setColumnVisibility(old => ({...old, [id]: value}))
toggleVisibility(vis, id, value) ==
  IF getCanHide(id) THEN [vis EXCEPT ![id] = value] ELSE vis

\* table.getAllColumns().filter(column => column.getCanHide())
allColumns == SelectSeq(Columns, LAMBDA c : getCanHide(c))

\* Mutant: each call replaces the map computed from the rendered state, so
\* only the last column's update survives.
RECURSIVE toggleAll_LastOnly(_, _, _)
toggleAll_LastOnly(vis, cols, value) ==
  IF cols = <<>> THEN vis
  ELSE IF Tail(cols) # <<>> THEN toggleAll_LastOnly(vis, Tail(cols), value)
  ELSE IF Head(cols) # "ticker" THEN toggleVisibility(vis, Head(cols), value)
  ELSE vis

\* allColumns.forEach(col => { if (col.id !== "ticker") col.toggleVisibility(value) }):
\* the updaters queued by one click are applied one after the other.
RECURSIVE toggleAll(_, _, _)
toggleAll(vis, cols, value) ==
  IF cols = <<>> THEN vis
  ELSE toggleAll(IF Head(cols) # "ticker"
                 THEN toggleVisibility(vis, Head(cols), value) ELSE vis,
                 Tail(cols), value)

\* row.getVisibleCells(): the cells of the visible columns, in column order;
\* each cell shows the value of its column.
getVisibleCells(stock, vis) ==
  LET shown == SelectSeq(Columns, LAMBDA c : getIsVisible(vis, c))
  IN  Array([k \in 1..Len(shown) |-> <<shown[k], getValue(stock, shown[k])>>])

----------------------------------------------------------------------------
(* The screening state: DataTable's useState cells and memoised values     *)

NoPrev == [op |-> "init", prevSector |-> "Any", prevIndustry |-> "Any"]

\* Mutant: filters is missing from the dependency list.
useMemoFilteredData_Stale(prev, d, f) == prev

\* useMemo(() => applyFilters(data, filters), [data, filters]): recomputed
\* when the filters object is replaced, else the previous value.
useMemoFilteredData(prev, d, f) == applyFilters(d, f)

\* extractTicker(row.original.symbol) throws a TypeError on a missing symbol;
\* the ticker cell is rendered for every row of the page while the ticker
\* column is visible.
throwsOnRender(stock, vis) == getIsVisible(vis, "ticker") /\ stock.symbol = Null

\* Rendering the page of pg throws: one of its rows does.
throwsOnPage(sorted, pg, vis) ==
  \E k \in 1..Len(sorted) :
    /\ k > pg.pageSize * pg.pageIndex
    /\ k <= pg.pageSize * (pg.pageIndex + 1)
    /\ throwsOnRender(sorted[k], vis)

\* The rows of the page and their visible cells, or nothing when rendering
\* one of them throws.
renderRows(page, vis) ==
  IF \E k \in 1..Len(page) : throwsOnRender(page[k], vis) THEN <<>> ELSE page

renderCells(page, vis) ==
  Array([k \in 1..Len(renderRows(page, vis)) |-> getVisibleCells(page[k], vis)])

\* One React event handler: the state setters it calls are applied together
\* and the component re-renders, recomputing the memoised values and the
\* row models from the new state.
Step(newFilters, newSorting, newPagination, newPageSize, newVisibility, op) ==
  /\ ~renderError
  /\ filters' = newFilters
  /\ sorting' = newSorting
  /\ pagination' = newPagination
  /\ pageSize' = newPageSize
  /\ columnVisibility' = newVisibility
  /\ filteredData' = useMemoFilteredData(filteredData, data, newFilters)
  /\ industryOptions' = filteredIndustries(data, newFilters.sector)
  /\ sortedRows' = getSortedRowModel(filteredData', newSorting)
  /\ pageRows' = renderRows(getPaginationRowModel(sortedRows', newPagination),
                            newVisibility)
  /\ cells' = renderCells(pageRows', newVisibility)
  /\ renderError' = throwsOnPage(sortedRows', newPagination, newVisibility)
  /\ last' = [op |-> op, prevSector |-> filters.sector,
              prevIndustry |-> filters.industry]
  /\ UNCHANGED <<data, isExpanded, rating, ratingLabel>>

\* Mutant: the handler also re-initialises the visibility map.
Commit_ResetsVisibility(newFilters, newSorting, op) ==
  Step(newFilters, newSorting, resetPageIndex(pagination), pageSize,
       initialColumnVisibility, op)

\* A handler that replaces the filters or the sorting: the row models are
\* recomputed from them and queue the page index reset.
Commit(newFilters, newSorting, op) ==
  Step(newFilters, newSorting, resetPageIndex(pagination), pageSize,
       columnVisibility, op)

Range(s) == {s[i] : i \in 1..Len(s)}

\* Values typed into the numeric inputs (parseFloat of the text, or null
\* for an empty input).
BoundInputs(key) ==
  CASE key = "marketCapMin" -> {Null, Some(10)}
    [] key = "marketCapMax" -> {Null, Some(5)}
    [] key = "rsiMin" -> {Null, Some(70)}
    [] key = "rsiMax" -> {Null, Some(30)}
    [] key = "changeMin" -> {Null, Some(5)}
    [] key = "changeMax" -> {Null, Some(0)}

BoundKeys ==
  {"marketCapMin", "marketCapMax", "rsiMin", "rsiMax", "changeMin", "changeMax"}

\* No rating cell has been rendered: the model's columns hold no rating.
NoRatingCell ==
  /\ rating = Null
  /\ ratingLabel = Null

\* The state after DataTable's first render of a snapshot.
Mounted(snapshots) ==
  /\ data \in snapshots
  /\ filters = defaultFilters
  /\ isExpanded = FALSE
  /\ sorting = <<>>
  /\ pagination = [pageIndex |-> 0, pageSize |-> InitialPageSize]
  /\ pageSize = InitialPageSize
  /\ columnVisibility = initialColumnVisibility
  /\ filteredData = applyFilters(data, defaultFilters)
  /\ industryOptions = filteredIndustries(data, "Any")
  /\ sortedRows = getSortedRowModel(applyFilters(data, defaultFilters), <<>>)
  /\ pageRows = renderRows(getPaginationRowModel(sortedRows, pagination),
                           columnVisibility)
  /\ cells = renderCells(pageRows, columnVisibility)
  /\ renderError = throwsOnPage(sortedRows, pagination, columnVisibility)
  /\ last = NoPrev
  /\ NoRatingCell

Init == Mounted({SnapshotABC, SnapshotAll})

ToggleExpanded ==
  /\ ~renderError
  /\ isExpanded' = ~isExpanded
  /\ UNCHANGED <<data, filters, sorting, pagination, pageSize, columnVisibility,
                 filteredData, industryOptions, sortedRows, pageRows, cells,
                 renderError, last, rating, ratingLabel>>

SelectSector ==
  /\ isExpanded
  /\ \E v \in Range(sectors(data)) :
       Commit(updateFilter(filters, "sector", v), sorting, "sector")

SelectIndustry ==
  /\ isExpanded
  /\ \E v \in Range(industryOptions) :
       Commit(updateFilter(filters, "industry", v), sorting, "industry")

\* onChange of the numeric inputs keys.
EditBoundOn(keys) ==
  \E key \in keys : \E v \in BoundInputs(key) :
    Commit(updateFilter(filters, key, v), sorting, key)

EditBound ==
  /\ isExpanded
  /\ EditBoundOn(BoundKeys)

ResetFilters ==
  /\ hasActiveFilters(filters)
  /\ Commit(defaultFilters, sorting, "resetFilters")

\* Mutant: the preset spreads the current criteria instead of defaultFilters.
PresetOverbought_Merge ==
  /\ isExpanded
  /\ Commit([filters EXCEPT !.rsiMin = Some(70), !.rsiMax = Some(100)],
            sorting, "overbought")

PresetOverbought ==
  /\ isExpanded
  /\ Commit([defaultFilters EXCEPT !.rsiMin = Some(70), !.rsiMax = Some(100)],
            sorting, "overbought")

PresetOversold ==
  /\ isExpanded
  /\ Commit([defaultFilters EXCEPT !.rsiMin = Some(0), !.rsiMax = Some(30)],
            sorting, "oversold")

PresetLargeCap ==
  /\ isExpanded
  /\ Commit([defaultFilters EXCEPT !.marketCapMin = Some(10)],
            sorting, "largeCap")

\* Mutant: the click resets the criteria and leaves the sorting for later.
PresetTopGainers_FiltersOnly ==
  /\ isExpanded
  /\ Commit(defaultFilters, sorting, "topGainers")

PresetTopGainers ==
  /\ isExpanded
  /\ Commit(defaultFilters, <<[id |-> "change", desc |-> TRUE]>>, "topGainers")

PresetTopLosers ==
  /\ isExpanded
  /\ Commit(defaultFilters, <<[id |-> "change", desc |-> FALSE]>>, "topLosers")

\* onClick={header.column.getToggleSortingHandler()} on the headers ids,
\* with the shift key as in shifts.
HeaderClickOn(ids, shifts) ==
  \E id \in ids : \E shiftKey \in shifts :
    Commit(filters,
           toggleSorting(sorting, filteredData, id, isMultiSortEvent(shiftKey)),
           "headerClick")

\* The headers are part of the mounted table.
HeaderClick ==
  /\ ~renderError
  /\ HeaderClickOn(SortableColumns, BOOLEAN)

Paginate(newPagination, op) ==
  Step(filters, sorting, newPagination, pageSize, columnVisibility, op)

\* The navigation buttons; a disabled button takes no click.
FirstPage ==
  /\ getCanPreviousPage(Len(sortedRows), pagination)
  /\ Paginate(setPageIndex(pagination, 0), "firstPage")

PreviousPage ==
  /\ getCanPreviousPage(Len(sortedRows), pagination)
  /\ Paginate(setPageIndex(pagination, pagination.pageIndex - 1), "previousPage")

NextPage ==
  /\ getCanNextPage(Len(sortedRows), pagination)
  /\ Paginate(setPageIndex(pagination, pagination.pageIndex + 1), "nextPage")

LastPage ==
  /\ getCanNextPage(Len(sortedRows), pagination)
  /\ Paginate(setPageIndex(pagination, getPageCount(Len(sortedRows), pagination) - 1),
              "lastPage")

\* handlePageSizeChange: setPageSize(newSize); table.setPageSize(newSize)
HandlePageSizeChange ==
  /\ ~renderError
  /\ \E newSize \in PageSizes \ {pageSize} :
       Step(filters, sorting, setPageSize(pagination, newSize), newSize,
            columnVisibility, "pageSize")

SetVisibility(newVisibility, op) ==
  Step(filters, sorting, pagination, pageSize, newVisibility, op)

\* A checkbox item of the column menu: one per column of allColumns.
ToggleColumnOn(ids) ==
  \E k \in 1..Len(allColumns) :
    /\ allColumns[k] \in ids
    /\ SetVisibility(toggleVisibility(columnVisibility, allColumns[k],
                                      ~getIsVisible(columnVisibility, allColumns[k])),
                     "toggleColumn")

ToggleColumn ==
  /\ ~renderError
  /\ ToggleColumnOn(ColumnIds)

ShowAll ==
  /\ ~renderError
  /\ SetVisibility(toggleAll(columnVisibility, allColumns, TRUE), "showAll")

HideAll ==
  /\ ~renderError
  /\ SetVisibility(toggleAll(columnVisibility, allColumns, FALSE), "hideAll")

Next ==
  \/ ToggleExpanded
  \/ SelectSector
  \/ SelectIndustry
  \/ EditBound
  \/ ResetFilters
  \/ PresetOverbought
  \/ PresetOversold
  \/ PresetLargeCap
  \/ PresetTopGainers
  \/ PresetTopLosers

Spec == Init /\ [][Next]_vars

----------------------------------------------------------------------------
(* applyFilters, filteredIndustries and the sorted row model as functions  *)
(* of their inputs: the inputs are drawn from the bounded sets below and   *)
(* one render computes the derived values.                                 *)

\* The values each criterion ranges over.
CriteriaValues ==
  [sector |-> {"Any", "Tech", "Energy"},
   industry |-> {"Any", "Software", "Oil"},
   marketCapMin |-> {Null, Some(2), Some(10)},
   marketCapMax |-> {Null, Some(5)},
   rsiMin |-> {Null, Some(20), Some(70)},
   rsiMax |-> {Null, Some(30)},
   changeMin |-> {Null, Some(-10), Some(5)},
   changeMax |-> {Null, Some(0)}]

CriteriaSpace ==
  [sector : CriteriaValues.sector, industry : CriteriaValues.industry,
   marketCapMin : CriteriaValues.marketCapMin, marketCapMax : CriteriaValues.marketCapMax,
   rsiMin : CriteriaValues.rsiMin, rsiMax : CriteriaValues.rsiMax,
   changeMin : CriteriaValues.changeMin, changeMax : CriteriaValues.changeMax]

SortingSpace ==
  {<<>>} \cup {<<[id |-> c, desc |-> d]>> : c \in NumericColumns, d \in BOOLEAN}

\* Nothing derived yet; the table state is the initial one.
Unrendered ==
  /\ pagination = [pageIndex |-> 0, pageSize |-> InitialPageSize]
  /\ pageSize = InitialPageSize
  /\ columnVisibility = initialColumnVisibility
  /\ filteredData = <<>>
  /\ industryOptions = <<>>
  /\ sortedRows = <<>>
  /\ pageRows = <<>>
  /\ cells = <<>>
  /\ renderError = FALSE
  /\ last = NoPrev

Render ==
  /\ last.op = "init"
  /\ filteredData' = applyFilters(data, filters)
  /\ industryOptions' = filteredIndustries(data, filters.sector)
  /\ sortedRows' = getSortedRowModel(applyFilters(data, filters), sorting)
  /\ last' = [last EXCEPT !.op = "render"]
  /\ UNCHANGED <<data, filters, isExpanded, sorting, pagination, pageSize,
                 columnVisibility, pageRows, cells, renderError, rating,
                 ratingLabel>>

InitFilter ==
  /\ data \in Snapshots
  /\ filters \in CriteriaSpace
  /\ isExpanded = FALSE
  /\ sorting = <<>>
  /\ Unrendered
  /\ NoRatingCell

SpecFilter == InitFilter /\ [][Render]_vars

InitSort ==
  /\ data \in Snapshots
  /\ filters = defaultFilters
  /\ isExpanded = FALSE
  /\ sorting \in SortingSpace
  /\ Unrendered
  /\ NoRatingCell

SpecSort == InitSort /\ [][Render]_vars

----------------------------------------------------------------------------
(* Sorting through the column headers and the sorting presets.             *)

NextSorting ==
  \/ ToggleExpanded
  \/ HeaderClick
  \/ PresetTopGainers
  \/ PresetTopLosers

SpecSorting == Init /\ [][NextSorting]_vars

----------------------------------------------------------------------------
(* Paging through a snapshot of several pages while the filters, the       *)
(* sorting preset and the page size change.                                *)

InitPaging == Mounted({SnapshotBig})

\* Edits of the RSI maximum.
EditRsiMax ==
  /\ isExpanded
  /\ EditBoundOn({"rsiMax"})

NextPaging ==
  \/ ToggleExpanded
  \/ SelectSector
  \/ EditRsiMax
  \/ PresetOverbought
  \/ PresetTopGainers
  \/ FirstPage
  \/ PreviousPage
  \/ NextPage
  \/ LastPage
  \/ HandlePageSizeChange

SpecPaging == InitPaging /\ [][NextPaging]_vars

----------------------------------------------------------------------------
(* The column menu, used while the sector filter changes.                 *)

NextColumns ==
  \/ ToggleExpanded
  \/ SelectSector
  \/ ToggleColumn
  \/ ShowAll
  \/ HideAll

SpecColumns == Init /\ [][NextColumns]_vars

----------------------------------------------------------------------------
(* The whole table: filters, presets, header sorting, pagination and the   *)
(* column menu together, over a snapshot of two pages.                     *)

InitTable == Mounted({SnapshotTail})

\* Plain clicks on the RSI header.
HeaderClickRsi ==
  /\ ~renderError
  /\ HeaderClickOn({"RSI"}, {FALSE})

\* The checkbox item of the industry column.
ToggleIndustryColumn ==
  /\ ~renderError
  /\ ToggleColumnOn({"industry"})

NextTable ==
  \/ ToggleExpanded
  \/ SelectSector
  \/ ResetFilters
  \/ PresetOverbought
  \/ PresetTopGainers
  \/ HeaderClickRsi
  \/ FirstPage
  \/ PreviousPage
  \/ NextPage
  \/ LastPage
  \/ HandlePageSizeChange
  \/ ToggleIndustryColumn
  \/ ShowAll
  \/ HideAll

SpecTable == InitTable /\ [][NextTable]_vars

----------------------------------------------------------------------------
(* Loading: page.tsx hands the imported snapshot to DataTable as it is,    *)
(* well-formed or with a record whose symbol is missing.                   *)

InitLoad == Mounted({SnapshotBig, SnapshotMalformed})

NextLoad ==
  \/ ToggleExpanded
  \/ SelectSector
  \/ EditRsiMax
  \/ NextPage
  \/ PreviousPage
  \/ HandlePageSizeChange

SpecLoad == InitLoad /\ [][NextLoad]_vars

----------------------------------------------------------------------------
(* table.setSorting with the id of a registered column or of none.        *)

\* table.setSorting([{ id, desc }]), the call the sorting presets make.
SetSortingTo(ids) ==
  \E id \in ids : \E desc \in BOOLEAN :
    Commit(filters, <<[id |-> id, desc |-> desc]>>, "setSorting")

\* An id no column of the columns array has.
UnknownColumn == "removed"

SetSorting ==
  /\ ~renderError
  /\ SetSortingTo({"change", UnknownColumn})

NextSetSorting ==
  \/ ToggleExpanded
  \/ SelectSector
  \/ HeaderClickRsi
  \/ SetSorting

SpecSetSorting == Init /\ [][NextSetSorting]_vars

----------------------------------------------------------------------------
(* The numeric inputs alone, over the five-record snapshot.               *)

InitRanges == Mounted({SnapshotAll})

NextRanges ==
  \/ ToggleExpanded
  \/ EditBound

SpecRanges == InitRanges /\ [][NextRanges]_vars

----------------------------------------------------------------------------
(* getRatingLabel (types) and RatingCell (columns). A rating in [-1, 1]    *)
(* is counted in units of 10^-7, so that 0.5 is 5000000 and -0.1000001 is  *)
(* -1000001.                                                               *)

RatingUnit == 10 ^ 7

\* The literals 0.5, 0.1, -0.1 and -0.5 of getRatingLabel.
StrongBuyMin == RatingUnit \div 2

BuyMin == RatingUnit \div 10

NeutralMin == -(RatingUnit \div 10)

SellMin == -(RatingUnit \div 2)

\* Mutant: the "Strong Buy" test is strict.
getRatingLabel_StrictStrongBuy(r) ==
  IF r = Null THEN Null
  ELSE IF r[1] > StrongBuyMin THEN Some("Strong Buy")
  ELSE IF r[1] >= BuyMin THEN Some("Buy")
  ELSE IF r[1] >= NeutralMin THEN Some("Neutral")
  ELSE IF r[1] >= SellMin THEN Some("Sell")
  ELSE Some("Strong Sell")

getRatingLabel(r) ==
  IF r = Null THEN Null
  ELSE IF r[1] >= StrongBuyMin THEN Some("Strong Buy")
  ELSE IF r[1] >= BuyMin THEN Some("Buy")
  ELSE IF r[1] >= NeutralMin THEN Some("Neutral")
  ELSE IF r[1] >= SellMin THEN Some("Sell")
  ELSE Some("Strong Sell")

\* The grid of ratings has RatingSteps steps between 0 and 1.
RatingSteps == 50

\* The ratings handed to a rating cell: null, a grid over [-1, 1], each
\* threshold with its two neighbours, and 0.4999.
Ratings ==
  {Null}
    \cup {Some((k * RatingUnit) \div RatingSteps) : k \in (-RatingSteps)..RatingSteps}
    \cup {Some(t + e) : t \in {StrongBuyMin, BuyMin, NeutralMin, SellMin},
                        e \in {-1, 0, 1}}
    \cup {Some(StrongBuyMin - RatingUnit \div 10000)}

InitRating ==
  /\ data = SnapshotABC
  /\ filters = defaultFilters
  /\ isExpanded = FALSE
  /\ sorting = <<>>
  /\ Unrendered
  /\ rating \in Ratings
  /\ ratingLabel = Null

\* RatingCell({ value }): const label = getRatingLabel(value).
RatingCell ==
  /\ last.op = "init"
  /\ ratingLabel' = getRatingLabel(rating)
  /\ last' = [last EXCEPT !.op = "ratingCell"]
  /\ UNCHANGED <<data, filters, isExpanded, sorting, pagination, pageSize,
                 columnVisibility, filteredData, industryOptions, sortedRows,
                 pageRows, cells, renderError, rating>>

SpecRating == InitRating /\ [][RatingCell]_vars

----------------------------------------------------------------------------
(* The sorted row model on a column of words: the sector column, over      *)
(* records whose sector is capitalised, lower-case, empty or null.         *)

StockF == Stock("FFF", Some("energy"), Some("Oil"), Some(20), Some(50), Some(5))

StockG == Stock("GGG", Some(""), Null, Some(20), Some(50), Some(5))

TextPool == {StockA, StockC, StockD, StockF, StockG}

TextSnapshots ==
  {Array(s) : s \in {t \in UNION {[1..n -> TextPool] : n \in 0..MaxRecords} :
                       \A i, j \in DOMAIN t : i # j => t[i] # t[j]}}

\* The sorting state after one or two clicks on the sector header.
TextSortingSpace == {<<[id |-> "sector", desc |-> d]>> : d \in BOOLEAN}

InitTextSort ==
  /\ data \in TextSnapshots
  /\ filters = defaultFilters
  /\ isExpanded = FALSE
  /\ sorting \in TextSortingSpace
  /\ Unrendered
  /\ NoRatingCell

SpecTextSort == InitTextSort /\ [][Render]_vars

----------------------------------------------------------------------------
(* The quick presets, after criteria, sorting, page size and column        *)
(* visibility have been moved away from their initial values.              *)

NextPresets ==
  \/ ToggleExpanded
  \/ SelectSector
  \/ ResetFilters
  \/ PresetOverbought
  \/ PresetOversold
  \/ PresetLargeCap
  \/ PresetTopGainers
  \/ PresetTopLosers
  \/ HeaderClickRsi
  \/ HandlePageSizeChange
  \/ ToggleIndustryColumn

SpecPresets == Init /\ [][NextPresets]_vars

----------------------------------------------------------------------------
(* Properties                                                              *)

rendered == last.op = "render"

kept(stock) == stock \in Range(filteredData)

\* The per-field predicates as the specification states them.
CategoricalPredicate(value, criterion) ==
  criterion = "Any" \/ value = Some(criterion)

RangePredicate(value, min, max, scale) ==
  \/ value = Null
  \/ /\ (min = Null \/ value[1] >= min[1] * scale)
     /\ (max = Null \/ value[1] <= max[1] * scale)

SectorPredicate(stock, f) == CategoricalPredicate(stock.sector, f.sector)

IndustryPredicate(stock, f) == CategoricalPredicate(stock.industry, f.industry)

MarketCapPredicate(stock, f) ==
  RangePredicate(stock.market_cap_basic, f.marketCapMin, f.marketCapMax, Billion)

RsiPredicate(stock, f) == RangePredicate(stock.RSI, f.rsiMin, f.rsiMax, 1)

ChangePredicate(stock, f) ==
  RangePredicate(stock.change, f.changeMin, f.changeMax, 1)

\* C1 (null pass-through): after applyFilters, a record whose market cap,
\* RSI or change is null is kept whenever its predicates on the other four
\* fields hold, whatever the two bounds on the null attribute are (unset,
\* one set, both set, minimum above maximum).
C1_NullPassThrough ==
  rendered =>
    \A i \in 1..Len(data) :
      LET r == data[i]
          cat == SectorPredicate(r, filters) /\ IndustryPredicate(r, filters)
      IN  /\ (r.market_cap_basic = Null /\ cat /\ RsiPredicate(r, filters)
                /\ ChangePredicate(r, filters)) => kept(r)
          /\ (r.RSI = Null /\ cat /\ MarketCapPredicate(r, filters)
                /\ ChangePredicate(r, filters)) => kept(r)
          /\ (r.change = Null /\ cat /\ MarketCapPredicate(r, filters)
                /\ RsiPredicate(r, filters)) => kept(r)

\* A record with a null market cap is kept under a market-cap range whose
\* minimum (10) exceeds its maximum (5).
C1_Witness ==
  /\ rendered
  /\ filters.marketCapMin = Some(10) /\ filters.marketCapMax = Some(5)
  /\ \E i \in 1..Len(data) : data[i].market_cap_basic = Null /\ kept(data[i])

\* C2 (conjunction of five predicates): after applyFilters a record of the
\* snapshot is kept if and only if its sector, industry, market-cap, RSI and
\* change predicates all hold; a categorical predicate holds for "Any" and
\* otherwise only for a record whose value equals the criterion, so a null
\* sector fails every sector criterion other than "Any".
C2_ConjunctionOfPredicates ==
  rendered =>
    \A i \in 1..Len(data) :
      LET r == data[i]
      IN  /\ kept(r) <=> /\ SectorPredicate(r, filters)
                         /\ IndustryPredicate(r, filters)
                         /\ MarketCapPredicate(r, filters)
                         /\ RsiPredicate(r, filters)
                         /\ ChangePredicate(r, filters)
          /\ (r.sector = Null /\ filters.sector # "Any") => ~kept(r)

\* Under a sector and an industry criterion together, a record matching
\* both is kept while a record with a null sector and a record matching the
\* sector only are dropped.
C2_Witness ==
  /\ rendered
  /\ filters.sector = "Energy" /\ filters.industry = "Oil"
  /\ kept(StockC)
  /\ StockD \in Range(data) /\ ~kept(StockD)
  /\ StockE \in Range(data) /\ ~kept(StockE)

\* C3 (cascade reset): the criteria produced by updateFilter for the sector
\* key with a value different from the current sector have industry "Any";
\* with the same sector value, or for a numeric bound key, the industry (and
\* for a bound key the sector) is what it was before the call.  (An edit of
\* the industry key itself sets the industry to the value selected.)
C3_CascadeReset ==
  /\ (last.op = "sector" /\ filters.sector # last.prevSector)
       => filters.industry = "Any"
  /\ (last.op = "sector" /\ filters.sector = last.prevSector)
       => filters.industry = last.prevIndustry
  /\ last.op \in BoundKeys
       => filters.industry = last.prevIndustry /\ filters.sector = last.prevSector

\* The sector has just been changed while an industry was selected.
C3_Witness ==
  /\ last.op = "sector"
  /\ last.prevIndustry # "Any"
  /\ filters.sector # last.prevSector
  /\ filters.industry = "Any"

\* C4 (industry criterion always valid): in every reachable state the
\* industry criterion is "Any" or one of the industry options offered for
\* the selected sector, and such a value is carried by a record of that
\* sector.
C4_IndustryCriterionValid ==
  \/ filters.industry = "Any"
  \/ /\ filters.industry \in Range(industryOptions)
     /\ filters.industry \in Range(filteredIndustries(data, filters.sector))
     /\ \E i \in 1..Len(data) :
          /\ data[i].industry = Some(filters.industry)
          /\ filters.sector # "Any" => data[i].sector = Some(filters.sector)

\* An industry is selected under a selected sector, after a bound edit.
C4_Witness ==
  /\ filters.sector = "Tech"
  /\ filters.industry = "Software"
  /\ last.op \in BoundKeys

\* The industry values a record set carries as strings (null is no value).
ObservedIndustries(d, sector) ==
  {d[i].industry[1] :
     i \in {j \in 1..Len(d) :
              /\ d[j].industry # Null
              /\ sector = "Any" \/ d[j].sector = Some(sector)}}

OfferedIndustries == Range(industryOptions) \ {"Any"}

\* C5 as stated: the industry values offered are exactly the distinct
\* industry values observed among the records of the selected sector (all
\* records for "Any").
C5_Original ==
  rendered => OfferedIndustries = ObservedIndustries(data, filters.sector)

\* C5 (amended): the industry values offered are exactly the distinct
\* non-empty industry values observed among the records of the selected
\* sector (all records for "Any"); an empty industry string, like null, is
\* not offered.
C5_OfferedIndustries ==
  rendered => OfferedIndustries = ObservedIndustries(data, filters.sector) \ {""}

\* A sector is selected whose records carry an industry that is offered and
\* an empty one that is not, while another sector's industry is in the
\* snapshot.
C5_Witness ==
  /\ rendered
  /\ filters.sector = "Energy"
  /\ OfferedIndustries = {"Oil"}
  /\ "" \in ObservedIndustries(data, "Energy")
  /\ "Software" \in ObservedIndustries(data, "Any")

\* C6 (cascade consistency): once a sector S is selected, every industry
\* option offered (the "Any" entry aside) is the industry of at least one
\* snapshot record whose sector is S.
C6_CascadeConsistency ==
  filters.sector # "Any" =>
    \A o \in Range(industryOptions) \ {"Any"} :
      \E i \in 1..Len(data) :
        data[i].sector = Some(filters.sector) /\ data[i].industry = Some(o)

\* The sector has just been set and an industry is offered for it while
\* the snapshot holds an industry of another sector.
C6_Witness ==
  /\ last.op = "sector"
  /\ filters.sector = "Tech"
  /\ Range(industryOptions) = {"Any", "Software"}
  /\ \E i \in 1..Len(data) : data[i].industry = Some("Oil")

Active(f, key) == IF key \in {"sector", "industry"} THEN f[key] # "Any" ELSE f[key] # Null

Choices(f, key) == IF Active(f, key) THEN {f[key]} ELSE CriteriaValues[key]

\* The criteria sets that keep every active constraint of f and activate at
\* least one more.
Stricter(f) ==
  [sector : Choices(f, "sector"), industry : Choices(f, "industry"),
   marketCapMin : Choices(f, "marketCapMin"), marketCapMax : Choices(f, "marketCapMax"),
   rsiMin : Choices(f, "rsiMin"), rsiMax : Choices(f, "rsiMax"),
   changeMin : Choices(f, "changeMin"), changeMax : Choices(f, "changeMax")] \ {f}

\* C7 (filter monotonicity): for the snapshot and criteria of the state and
\* every criteria set that differs only by activating further constraints,
\* applyFilters keeps at most as many records under the stricter set.
C7_FilterMonotonicity ==
  rendered =>
    \A c2 \in Stricter(filters) : Len(applyFilters(data, c2)) <= Len(filteredData)

\* Some stricter criteria set keeps strictly fewer records.
C7_Witness ==
  /\ rendered
  /\ Len(filteredData) = 3
  /\ \E c2 \in Stricter(filters) : Len(applyFilters(data, c2)) = 1

RECURSIVE IsSubsequence(_, _)
IsSubsequence(s, t) ==
  IF s = <<>> THEN TRUE
  ELSE IF t = <<>> THEN FALSE
  ELSE IF Head(s) = Head(t) THEN IsSubsequence(Tail(s), Tail(t))
  ELSE IsSubsequence(s, Tail(t))

\* C8 (order-preserving subsequence): the result of applyFilters is a
\* subsequence of the snapshot: its records are snapshot records, unaltered,
\* each once, in their snapshot order.
C8_Subsequence ==
  rendered =>
    /\ IsSubsequence(filteredData, data)
    /\ \A i, j \in 1..Len(filteredData) : i # j => filteredData[i] # filteredData[j]

\* The middle record of three is dropped and the other two keep their order.
C8_Witness ==
  /\ rendered
  /\ Len(data) = 3
  /\ filteredData = <<data[1], data[3]>>

\* C9 (end-to-end filter scenario): on the snapshot A, B, C, the criteria
\* {sector = Tech} keep A, B; {sector = Tech, rsiMin = 70} keep A;
\* {rsiMin = 70} keep A, C.
C9_EndToEndFilter ==
  (rendered /\ data = SnapshotABC) =>
    /\ filters = [defaultFilters EXCEPT !.sector = "Tech"]
         => filteredData = <<StockA, StockB>>
    /\ filters = [defaultFilters EXCEPT !.sector = "Tech", !.rsiMin = Some(70)]
         => filteredData = <<StockA>>
    /\ filters = [defaultFilters EXCEPT !.rsiMin = Some(70)]
         => filteredData = <<StockA, StockC>>

\* The scenario's second step has been computed.
C9_Witness ==
  /\ rendered
  /\ data = SnapshotABC
  /\ filters = [defaultFilters EXCEPT !.sector = "Tech", !.rsiMin = Some(70)]
  /\ filteredData = <<StockA>>

\* C10 (null-last numeric sort): after sorting by a numeric attribute, in
\* either direction, every record whose value is null stands after every
\* record whose value is not null; sorting A, B, C by market cap descending
\* gives B, C, A.
C10_NullsLast ==
  (rendered /\ sorting # <<>>) =>
    /\ \A i, j \in 1..Len(sortedRows) :
         (/\ getValue(sortedRows[i], sorting[1].id) = Null
          /\ getValue(sortedRows[j], sorting[1].id) # Null) => j < i
    /\ (data = SnapshotABC /\ sorting = <<[id |-> "market_cap_basic", desc |-> TRUE]>>)
         => sortedRows = <<StockB, StockC, StockA>>

----------------------------------------------------------------------------
(* Sorting state and toggle cycle                                          *)

\* C11: in every state reachable by header clicks and preset clicks the
\* sort state holds at most one sort spec.
C11_AtMostOneSortSpec == Len(sorting) <= 1

\* A click without the shift key on the header of column id.
PlainClick(id) == HeaderClickOn({id}, {FALSE})

\* C12: a first click on a header sorts its column ascending, a click on an
\* ascending column makes it descending, a click on a descending column
\* makes it ascending or unsorted; and whenever no sort is active the
\* displayed order is the order of the filter stage.
C12_SortToggleCycle ==
  /\ [](sorting = <<>> => sortedRows = filteredData)
  /\ [][\A id \in SortableColumns :
          PlainClick(id) =>
            CASE getIsSorted(sorting, id) = "false" -> getIsSorted(sorting', id) = "asc"
              [] getIsSorted(sorting, id) = "asc" -> getIsSorted(sorting', id) = "desc"
              [] getIsSorted(sorting, id) = "desc" ->
                   getIsSorted(sorting', id) \in {"asc", "false"}]_vars

----------------------------------------------------------------------------
(* Pagination                                                              *)

Min(a, b) == IF a < b THEN a ELSE b

Max(a, b) == IF a > b THEN a ELSE b

\* The elements of s at the zero-based positions [from, to).
Slice(s, from, to) == Array([k \in 1..Max(0, to - from) |-> s[from + k]])

\* C13: with N rows after filtering and sorting, page size S and page index
\* P, the visible rows are the slice [P*S, min((P+1)*S, N)), the reported
\* page count is ceil(N / S) but at least 1, and the page index in use is
\* max(0, min(P, pageCount - 1)).
C13_PageSliceAndCount ==
  LET N == Len(sortedRows)
      S == pagination.pageSize
      P == pagination.pageIndex
      pageCount == Max(1, (N + S - 1) \div S)
  IN  /\ S \in {25, 50, 100}
      /\ pageRows = Slice(sortedRows, P * S, Min((P + 1) * S, N))
      /\ getPageCount(N, pagination) = pageCount
      /\ P = Max(0, Min(P, pageCount - 1))

\* C14: whenever the filtered count is greater than 0 the visible page is
\* not empty, and the page index lies in [0, pageCount - 1].
C14_PageNeverEmpty ==
  Len(filteredData) > 0 =>
    /\ pageRows # <<>>
    /\ pagination.pageIndex \in
         0..(getPageCount(Len(sortedRows), pagination) - 1)

\* A page-size change from 25 to 50 made on the last of three pages: the
\* second page of 50 is shown, with the remaining rows.
C14_Witness ==
  /\ last.op = "pageSize"
  /\ Len(filteredData) = BigRecords
  /\ pagination = [pageIndex |-> 1, pageSize |-> 50]
  /\ Len(pageRows) = BigRecords - 50

RECURSIVE concatPages(_, _, _)
concatPages(sorted, size, count) ==
  IF count = 0 THEN <<>>
  ELSE concatPages(sorted, size, count - 1) \o
       getPaginationRowModel(sorted, [pageIndex |-> count - 1, pageSize |-> size])

\* C15: for the current page size, filters and sorting, the pages 0 to
\* pageCount - 1 concatenated are exactly the filtered-and-sorted rows, and
\* the page shown is the one of the current page index.
C15_PaginationCoverage ==
  /\ concatPages(sortedRows, pagination.pageSize,
                 getPageCount(Len(sortedRows), pagination)) = sortedRows
  /\ pageRows = getPaginationRowModel(sortedRows, pagination)

\* Three pages of a sorted result, the last one shown.
C15_Witness ==
  /\ sorting # <<>>
  /\ Len(sortedRows) = BigRecords
  /\ sortedRows # filteredData
  /\ pagination = [pageIndex |-> 2, pageSize |-> 25]
  /\ Len(pageRows) = BigRecords - 50

----------------------------------------------------------------------------
(* Column visibility                                                       *)

NonPinned == ColumnIds \ {"ticker"}

\* C16: the ticker column is visible in every reachable state, every
\* rendered row starts with its ticker cell, and a toggle request aimed at
\* the ticker column changes nothing.
C16_TickerAlwaysVisible ==
  /\ getIsVisible(columnVisibility, "ticker")
  /\ \A k \in 1..Len(cells) : cells[k][1][1] = "ticker"
  /\ \A value \in BOOLEAN :
       toggleVisibility(columnVisibility, "ticker", value) = columnVisibility

\* After "None" and one toggle only the ticker column and one more column
\* are visible.
C16_Witness ==
  /\ last.op = "toggleColumn"
  /\ getIsVisible(columnVisibility, "ticker")
  /\ Cardinality({c \in NonPinned : getIsVisible(columnVisibility, c)}) = 1
  /\ pageRows # <<>>

\* C17: "All" leaves every other column than ticker visible, "None" leaves
\* every other column hidden, and both leave the ticker entry as it was.
C17_AllAndNone ==
  [][/\ ShowAll => \A c \in NonPinned : getIsVisible(columnVisibility', c)
     /\ HideAll => \A c \in NonPinned : ~getIsVisible(columnVisibility', c)
     /\ (ShowAll \/ HideAll) =>
          columnVisibility'["ticker"] = columnVisibility["ticker"]]_vars

\* "All" was clicked and the columns hidden at first are visible.
C17_Witness ==
  /\ last.op = "showAll"
  /\ \A c \in ColumnIds : getIsVisible(columnVisibility, c)
  /\ initialColumnVisibility # columnVisibility

----------------------------------------------------------------------------
(* Frame and refinement                                                    *)

\* C18: a step changes the visibility map only if it is a column toggle,
\* "All" or "None"; filter edits, Clear all, presets, header clicks, page
\* navigation and page-size changes leave it unchanged.
C18_VisibilityFrame ==
  [][/\ columnVisibility' # columnVisibility => (ToggleColumn \/ ShowAll \/ HideAll)
     /\ ( \/ SelectSector \/ ResetFilters \/ PresetOverbought \/ PresetTopGainers
          \/ HeaderClick \/ FirstPage \/ PreviousPage \/ NextPage \/ LastPage
          \/ HandlePageSizeChange \/ ToggleExpanded )
         => columnVisibility' = columnVisibility]_vars

\* A header click made on the second page of a filtered result while the
\* visibility map differs from the initial one.
C18_Witness ==
  /\ last.op = "headerClick"
  /\ columnVisibility # initialColumnVisibility
  /\ filters.sector = "Energy"
  /\ pageSize # InitialPageSize

\* C19: in every reachable state the rendered rows are the page, of the
\* current page size and index, of the current filters' result in the
\* current sorting's order, and the rendered cells are those of the
\* currently visible columns.
C19_RenderedIsDerived ==
  LET filtered == applyFilters(data, filters)
      sorted == getSortedRowModel(filtered, sorting)
      page == getPaginationRowModel(sorted, pagination)
  IN  /\ filteredData = filtered
      /\ sortedRows = sorted
      /\ pageRows = page
      /\ Len(cells) = Len(page)
      /\ \A k \in 1..Len(page) :
           /\ Len(cells[k]) = Cardinality({c \in ColumnIds : columnVisibility[c]})
           /\ \A n \in 1..Len(cells[k]) :
                /\ columnVisibility[cells[k][n][1]]
                /\ cells[k][n][2] = getValue(page[k], cells[k][n][1])

\* The second page of the Energy records sorted by RSI ascending, with the
\* industry column switched on.
C19_Witness ==
  /\ filters.sector = "Energy"
  /\ sorting = <<[id |-> "RSI", desc |-> FALSE]>>
  /\ pagination.pageIndex = 1
  /\ columnVisibility["industry"]
  /\ Len(pageRows) = Len(filteredData) - InitialPageSize
  /\ Len(pageRows) > 0

----------------------------------------------------------------------------
(* Malformed records                                                       *)

malformed(d) == \E i \in 1..Len(d) : d[i].symbol = Null

\* C20: a snapshot holding a record without identifier is rejected as a
\* whole: none of its records is ever filtered, sorted or shown.
C20_MalformedSnapshotRejected ==
  malformed(data) =>
    /\ filteredData = <<>>
    /\ sortedRows = <<>>
    /\ pageRows = <<>>
    /\ cells = <<>>

----------------------------------------------------------------------------
(* Unknown sort column                                                     *)

----------------------------------------------------------------------------
(* Ranges whose minimum exceeds their maximum                              *)

Inverted(min, max) == min # Null /\ max # Null /\ min[1] > max[1]

\* C22: a range whose minimum exceeds its maximum is accepted and applied
\* as written. Typing a bound stores exactly the typed value under its key
\* and leaves every other criterion alone (no exchange, no clearing, no
\* rejection), and under such a range the kept records are exactly the
\* records with a null value for that attribute that pass the predicates of
\* the other attributes.
C22_InvertedRangeLiteral ==
  /\ [](/\ Inverted(filters.marketCapMin, filters.marketCapMax) =>
             Range(filteredData) =
               {r \in Range(data) :
                  /\ r.market_cap_basic = Null
                  /\ SectorPredicate(r, filters) /\ IndustryPredicate(r, filters)
                  /\ RsiPredicate(r, filters) /\ ChangePredicate(r, filters)}
        /\ Inverted(filters.rsiMin, filters.rsiMax) =>
             Range(filteredData) =
               {r \in Range(data) :
                  /\ r.RSI = Null
                  /\ SectorPredicate(r, filters) /\ IndustryPredicate(r, filters)
                  /\ MarketCapPredicate(r, filters) /\ ChangePredicate(r, filters)}
        /\ Inverted(filters.changeMin, filters.changeMax) =>
             Range(filteredData) =
               {r \in Range(data) :
                  /\ r.change = Null
                  /\ SectorPredicate(r, filters) /\ IndustryPredicate(r, filters)
                  /\ MarketCapPredicate(r, filters) /\ RsiPredicate(r, filters)})
  /\ [][EditBound =>
          \A key \in BoundKeys :
            last'.op = key =>
              /\ filters'[key] \in BoundInputs(key)
              /\ \A other \in FilterKeys \ {key} : filters'[other] = filters[other]]_vars

\* RSI minimum 70 above RSI maximum 30, both stored as typed: the record
\* without RSI is the only one kept.
C22_Witness ==
  /\ last.op \in {"rsiMin", "rsiMax"}
  /\ filters.rsiMin = Some(70) /\ filters.rsiMax = Some(30)
  /\ Inverted(filters.rsiMin, filters.rsiMax)
  /\ filteredData = <<StockC>>

----------------------------------------------------------------------------
(* Rating labels                                                           *)

labelled == last.op = "ratingCell"

\* C23: a rating of at least 0.5 is labelled "Strong Buy", of at least 0.1
\* "Buy", of at least -0.1 "Neutral", of at least -0.5 "Sell", anything
\* lower "Strong Sell", and a null rating gets no label; so 0.5 is "Strong
\* Buy", 0.4999 "Buy", -0.1 "Neutral" and -0.1000001 "Sell".
C23_RatingLabelBands ==
  labelled =>
    /\ rating = Null <=> ratingLabel = Null
    /\ rating # Null =>
         LET r == rating[1]
             half == 5000000
             tenth == 1000000
         IN  /\ ratingLabel = Some("Strong Buy") <=> r >= half
             /\ ratingLabel = Some("Buy") <=> (r >= tenth /\ r < half)
             /\ ratingLabel = Some("Neutral") <=> (r >= -tenth /\ r < tenth)
             /\ ratingLabel = Some("Sell") <=> (r >= -half /\ r < -tenth)
             /\ ratingLabel = Some("Strong Sell") <=> r < -half
    /\ rating = Some(5000000) => ratingLabel = Some("Strong Buy")
    /\ rating = Some(4999000) => ratingLabel = Some("Buy")
    /\ rating = Some(-1000000) => ratingLabel = Some("Neutral")
    /\ rating = Some(-1000001) => ratingLabel = Some("Sell")

\* The rating 0.5 exactly has been labelled.
C23_Witness ==
  /\ labelled
  /\ rating = Some(5000000)
  /\ ratingLabel = Some("Strong Buy")

----------------------------------------------------------------------------
(* Sorting a column of words                                               *)

blank(o) == o = Null \/ o = Some("")

\* The position of a string in code-unit (case-sensitive) order.
codeUnitRank(s) == CHOOSE k \in 1..Len(StringOrder) : StringOrder[k] = s

\* C24: sorted by sector, the rows with a sector are in case-sensitive
\* lexicographic order (reversed when descending), and the rows whose sector
\* is null or empty come after all of them in both directions.
C24_TextSortCaseSensitiveNullsLast ==
  (rendered /\ sorting \in TextSortingSpace) =>
    \A k \in 1..(Len(sortedRows) - 1) :
      LET a == sortedRows[k].sector
          b == sortedRows[k + 1].sector
      IN  /\ blank(a) => blank(b)
          /\ (~blank(a) /\ ~blank(b)) =>
               IF sorting[1].desc
               THEN codeUnitRank(a[1]) >= codeUnitRank(b[1])
               ELSE codeUnitRank(a[1]) <= codeUnitRank(b[1])

----------------------------------------------------------------------------
(* Initial column visibility                                               *)

\* C25: in the initial state a column is visible exactly when its id is in
\* defaultVisibleColumns, for the column with an explicit id as for the
\* columns whose id comes from their accessorKey.
C25_InitialVisibility ==
  last.op = "init" =>
    \A k \in 1..Len(ColumnDefs) :
      LET id == IF ColumnDefs[k].id # Null
                THEN ColumnDefs[k].id[1] ELSE ColumnDefs[k].accessorKey[1]
      IN  getIsVisible(columnVisibility, id) <=> id \in defaultVisibleColumns

\* The initial state: the ticker column (explicit id) and the sector column
\* (accessorKey) are shown, the industry column (accessorKey, not in
\* defaultVisibleColumns) is hidden.
C25_Witness ==
  /\ last.op = "init"
  /\ \E k \in 1..Len(ColumnDefs) :
       /\ ColumnDefs[k].id = Some("ticker")
       /\ getIsVisible(columnVisibility, "ticker")
  /\ \E k \in 1..Len(ColumnDefs) :
       /\ ColumnDefs[k] = [id |-> Null, accessorKey |-> Some("industry")]
       /\ ~getIsVisible(columnVisibility, "industry")
  /\ getIsVisible(columnVisibility, "sector")

----------------------------------------------------------------------------
(* Quick presets                                                           *)

\* Adjacent rows are in the given direction by change (null compared as 0,
\* as the default comparison does).
byChange(rowsIn, desc) ==
  \A k \in 1..(Len(rowsIn) - 1) :
    IF desc
    THEN toNumber(rowsIn[k].change) >= toNumber(rowsIn[k + 1].change)
    ELSE toNumber(rowsIn[k].change) <= toNumber(rowsIn[k + 1].change)

\* C26: after Top Gainers the table shows only records whose change is at
\* least 0, by change descending; after Top Losers only records whose
\* change is at most 0, by change ascending.
C26_GainersAndLosersFiltered ==
  /\ last.op = "topGainers" =>
       /\ \A k \in 1..Len(sortedRows) :
            sortedRows[k].change # Null => sortedRows[k].change[1] >= 0
       /\ byChange(sortedRows, TRUE)
  /\ last.op = "topLosers" =>
       /\ \A k \in 1..Len(sortedRows) :
            sortedRows[k].change # Null => sortedRows[k].change[1] <= 0
       /\ byChange(sortedRows, FALSE)

C30_FilterPresetsReplaceCriteria ==
  /\ [](/\ last.op = "overbought" =>
             filters = [sector |-> "Any", industry |-> "Any",
                        marketCapMin |-> Null, marketCapMax |-> Null,
                        rsiMin |-> Some(70), rsiMax |-> Some(100),
                        changeMin |-> Null, changeMax |-> Null]
        /\ last.op = "oversold" =>
             filters = [sector |-> "Any", industry |-> "Any",
                        marketCapMin |-> Null, marketCapMax |-> Null,
                        rsiMin |-> Some(0), rsiMax |-> Some(30),
                        changeMin |-> Null, changeMax |-> Null]
        /\ last.op = "largeCap" =>
             filters = [sector |-> "Any", industry |-> "Any",
                        marketCapMin |-> Some(10), marketCapMax |-> Null,
                        rsiMin |-> Null, rsiMax |-> Null,
                        changeMin |-> Null, changeMax |-> Null])
  /\ [][(PresetOverbought \/ PresetOversold \/ PresetLargeCap) =>
          /\ sorting' = sorting
          /\ columnVisibility' = columnVisibility
          /\ pageSize' = pageSize
          /\ pagination'.pageSize = pagination.pageSize]_vars

\* Overbought clicked with a sector criterion, a sort spec, a page size and
\* a visibility map that are not the initial ones.
C30_Witness ==
  /\ last.op = "overbought"
  /\ last.prevSector = "Tech"
  /\ filters.sector = "Any" /\ filters.rsiMin = Some(70)
  /\ sorting # <<>>
  /\ pageSize = 50
  /\ columnVisibility # initialColumnVisibility

----------------------------------------------------------------------------
(* Page size and the "Showing a to b" range                                *)

\* C28: DataTable's own pageSize equals the page size of the table's
\* pagination, both are one of 25, 50, 100 (25 initially), and whenever the
\* filtered count is above 0 the range "Showing a to b" is the 1-based
\* index range of the rows on the visible page.
C28_PageSizeInSync ==
  LET a == showingFrom(pagination, pageSize)
      b == showingTo(pagination, pageSize, Len(filteredData))
  IN  /\ pageSize = pagination.pageSize
      /\ pageSize \in {25, 50, 100}
      /\ last.op = "init" => pageSize = 25
      /\ Len(filteredData) > 0 =>
           /\ a <= b
           /\ Len(pageRows) = b - a + 1
           /\ \A k \in 1..Len(pageRows) : pageRows[k] = sortedRows[a + k - 1]

\* Page size 50 chosen and the second page shown: rows 51 to 52.
C28_Witness ==
  /\ pageSize = 50 /\ pagination.pageSize = 50
  /\ pagination.pageIndex = 1
  /\ showingFrom(pagination, pageSize) = 51
  /\ showingTo(pagination, pageSize, Len(filteredData)) = 52
  /\ Len(pageRows) = 2

----------------------------------------------------------------------------
(* Inclusive bounds                                                        *)

\* value lies in [min * scale, max * scale], an unset bound not constraining
within(value, min, max, scale) ==
  /\ (min = Null \/ value >= min[1] * scale)
  /\ (max = Null \/ value <= max[1] * scale)

\* C29: a record with a market cap m passes the market-cap range exactly
\* when (min is null or m >= min * 10^9) and (max is null or m <= max *
\* 10^9), the bounds being in billions; the RSI and change ranges are
\* inclusive at both ends in the same way, without scaling. Each range is
\* observed on the records that pass the predicates of the other fields.
C29_InclusiveBounds ==
  rendered =>
    \A i \in 1..Len(data) :
      LET r == data[i]
          cat == SectorPredicate(r, filters) /\ IndustryPredicate(r, filters)
      IN  /\ (r.market_cap_basic # Null /\ cat /\ RsiPredicate(r, filters)
                /\ ChangePredicate(r, filters)) =>
               (kept(r) <=> within(r.market_cap_basic[1], filters.marketCapMin,
                                   filters.marketCapMax, Billion))
          /\ (r.RSI # Null /\ cat /\ MarketCapPredicate(r, filters)
                /\ ChangePredicate(r, filters)) =>
               (kept(r) <=> within(r.RSI[1], filters.rsiMin, filters.rsiMax, 1))
          /\ (r.change # Null /\ cat /\ MarketCapPredicate(r, filters)
                /\ RsiPredicate(r, filters)) =>
               (kept(r) <=> within(r.change[1], filters.changeMin,
                                   filters.changeMax, 1))

\* A record whose market cap is exactly the minimum (10 billion) and whose
\* RSI is exactly the minimum (70) is kept, and a record whose market cap
\* lies below the minimum is not.
C29_Witness ==
  /\ rendered
  /\ filters.marketCapMin = Some(10) /\ filters.rsiMin = Some(70)
  /\ StockD.market_cap_basic = Some(10 * Billion) /\ StockD.RSI = Some(70)
  /\ kept(StockD)
  /\ StockB \in Range(data) /\ ~kept(StockB)

============================================================================
